---- MODULE Spec2Model ----
(***************************************************************************)
(* bin.py: a cached BIN -> country lookup (get_country_with_bin), a static *)
(* country classifier (classify_country_by_alpha2) and the orchestrator    *)
(* main.  Every call of main is a task of the asyncio event loop; tasks    *)
(* interleave at their await points (cache get, request, body read, cache  *)
(* set, aclose).  The Redis store and the remote BIN service are the       *)
(* environment.                                                            *)
(***************************************************************************)
EXTENDS Integers, Sequences, FiniteSets, TLC

VARIABLES
    cache,          \* the Redis store: a function from the keys present to bytes
    pc,             \* per call: where the task of main stands
    number,         \* per call: main's argument bin_number
    conn,           \* per call: the redis_client of main ("none", "open", "closed")
    status,         \* per call: response.status (0 before a response)
    data,           \* per call: the decoded body, response.json() (line 41)
    country_code,   \* per call: the local country_code of line 43
    country_alpha2, \* per call: the value get_country_with_bin returned to main
    classification, \* per call: the local classification of main (line 93)
    record,         \* per call: the dict main returned
    exc,            \* per call: the exception that left main ("" if none)
    trace,          \* per call: its cache reads, requests, cache writes and outcome, in order
    after,          \* per call: the calls that had ended when it read the cache
    writer,         \* per key present: the call that wrote the entry (0: another client)
    env,            \* steps the store's other clients and its expiry have taken
    arg,            \* the classifier on its own: its argument
    label           \* the classifier on its own: its result ("" before the call)

vars == <<cache, pc, number, conn, status, data, country_code, country_alpha2,
          classification, record, exc, trace, after, writer, env, arg, label>>

(* ------------------------------ bounds -------------------------------- *)

MaxCalls == 2       \* calls of main in one behaviour
MaxEnv == 1         \* writes and expiries by the store's other clients

Calls == 1..MaxCalls

(* --------------------------- Python values ---------------------------- *)

None == [t |-> "NoneType", v |-> ""]
Str(s) == [t |-> "str", v |-> s]
Bytes(s) == [t |-> "bytes", v |-> s]

\* the payload standing for a byte string that is not UTF-8
INVALID_UTF8 == "\\xff"

\* Python truthiness of None, str and bytes (lines 31, 44, 69)
Truthy_NotNone(x) == x.t # "NoneType"

Truthy(x) == x.t # "NoneType" /\ x.v # ""

\* bytes.decode() of line 32; undefined (UnicodeDecodeError) on invalid UTF-8
CanDecode(b) == b.v # INVALID_UTF8
Decode_Raw(b) == b
Decode(b) == Str(b.v)

\* what redis_client.set stores for a str value (line 45)
Encode(s) == Bytes(s.v)

(* ----------------------------- constants ------------------------------ *)

EU_COUNTRIES_ALPHA2 == {
    "AT", "BE", "BG", "HR", "CY", "CZ", "DK", "EE", "FI", "FR", "DE", "GR",
    "HU", "IE", "IT", "LV", "LT", "LU", "MT", "NL", "PL", "PT", "RO", "SK",
    "SI", "ES", "SE", "IS", "LI", "NO", "CH" }

SERBIA_ALPHA2 == "RS"

BinLen == 6

(* ------------------------------ inputs -------------------------------- *)

\* card numbers and BINs, as sequences of characters
Numbers == {
    <<"4","1","1","1","1","1","1","1","9","9","9","9">>,
    <<"4","1","1","1","1","1","0","0","0","0","0","0">>,
    <<"4","1","1","1","1","2">>,
    <<"4","1","1">> }

\* number[:6] (line 28)
Min(a, b) == IF a < b THEN a ELSE b
Slice(s, n) == SubSeq(s, 1, Min(Len(s), n))
bin_number_Whole(n) == n
bin_number(n) == Slice(n, BinLen)

\* f"bin_country:{bin_number}" (line 29)
cache_key_Shared(n) == <<"bin_country:">>
cache_key(n) == <<"bin_country:">> \o bin_number(n)

\* f"https://api.api-ninjas.com/v1/bin?bin={bin_number}" (line 34)
url(n) == <<"https://api.api-ninjas.com/v1/bin?bin=">> \o bin_number(n)

AllKeys == { cache_key(n) : n \in Numbers }

\* redis_client.get: the bytes stored under the key, None when absent
Get(store, k) == IF k \in DOMAIN store THEN store[k] ELSE None

\* redis_client.set: the store with k bound to b
Put(store, k, b) == [x \in DOMAIN store \cup {k} |-> IF x = k THEN b ELSE store[x]]

\* expiry of a key (ex=30 days, line 45)
Drop(store, k) == [x \in DOMAIN store \ {k} |-> store[x]]

(* ------------------------- the remote service ------------------------- *)

\* response.status values the service answers with
Statuses == {200, 404, 429, 503}

\* iso_code2 values the service knows
RemoteCodes == {"RS", "DE"}

\* response.json(): the decoded body.  list: isinstance(data, list); len: len(data);
\* object: data[0] has .get; iso_code2: data[0].get("iso_code2")
Body(isList, n, isObject, iso) ==
    [list |-> isList, len |-> n, object |-> isObject, iso_code2 |-> iso]

Bodies ==
    { Body(FALSE, 0, FALSE, None),      \* {"error": ...}: not a list
      Body(TRUE, 0, FALSE, None),       \* []
      Body(TRUE, 1, FALSE, None),       \* [1]: the first element is no object
      Body(TRUE, 1, TRUE, None),        \* [{}]: no iso_code2
      Body(TRUE, 1, TRUE, Str("")) }    \* [{"iso_code2": ""}]
    \cup { Body(TRUE, 1, TRUE, Str(c)) : c \in RemoteCodes }

(* ----------------------------- exceptions ----------------------------- *)

\* the classes an exception is an instance of, as far as lines 51-54 ask
Bases(e) ==
    CASE e = "ClientConnectorError" -> {"ClientError"}
      [] e = "ContentTypeError"     -> {"ClientError"}
      [] e = "ServerTimeoutError"   -> {"ClientError", "TimeoutError"}
      [] e = "TimeoutError"         -> {"TimeoutError"}
      [] OTHER                      -> {}

\* str(e)
Message(e) ==
    CASE e = "ClientConnectorError" -> "Cannot connect to host"
      [] e = "ContentTypeError"     -> "Attempt to decode JSON with unexpected mimetype"
      [] e = "ServerTimeoutError"   -> "Timeout on reading data from socket"
      [] OTHER                      -> ""

\* what session.get can raise before a response is there (line 39)
RequestFaults == {"ClientConnectorError", "TimeoutError", "ServerTimeoutError"}

\* what response.json() can raise (line 41)
JsonFaults == {"ContentTypeError", "JSONDecodeError", "TimeoutError"}

(* ----------------------------- classifier ----------------------------- *)

classify_NoSerbia(x) ==
    IF ~Truthy(x) THEN "UNKNOWN"
    ELSE IF x.v \in EU_COUNTRIES_ALPHA2 THEN "EU"
    ELSE "OTHER"

classify_country_by_alpha2(x) ==
    IF ~Truthy(x) THEN "UNKNOWN"
    ELSE IF x.v = SERBIA_ALPHA2 THEN "RS"
    ELSE IF x.v \in EU_COUNTRIES_ALPHA2 THEN "EU"
    ELSE "OTHER"

(* ------------------------------ the trace ----------------------------- *)

\* one observable step of a call:
\*   "get"     key, the value read, and by: the writer of the entry (-1: no entry)
\*   "request" the url
\*   "fault"   the exception raised inside the try block
\*   "set"     key, the value written
\*   "return"  the value returned      "raise"  the exception that left the call
Event(op, k, x, w) == [op |-> op, key |-> k, val |-> x, by |-> w]

\* the call that wrote the entry under k (0: another client; -1: no entry)
WriterOf(k) == IF k \in DOMAIN writer THEN writer[k] ELSE -1

Ended(c) == pc[c] \in {"close", "done", "failed"}

(* ------------------------------- state -------------------------------- *)

NoBody == Body(FALSE, 0, FALSE, None)
NoRecord == [bin |-> <<>>, country_alpha2 |-> None, classification |-> ""]

\* no call of main yet, the store empty
InitCalls ==
    /\ cache = << >>
    /\ pc = [c \in Calls |-> "idle"]
    /\ number = [c \in Calls |-> <<>>]
    /\ conn = [c \in Calls |-> "none"]
    /\ status = [c \in Calls |-> 0]
    /\ data = [c \in Calls |-> NoBody]
    /\ country_code = [c \in Calls |-> None]
    /\ country_alpha2 = [c \in Calls |-> None]
    /\ classification = [c \in Calls |-> ""]
    /\ record = [c \in Calls |-> NoRecord]
    /\ exc = [c \in Calls |-> ""]
    /\ trace = [c \in Calls |-> << >>]
    /\ after = [c \in Calls |-> {}]
    /\ writer = << >>
    /\ env = 0

Init ==
    /\ InitCalls
    /\ arg = None
    /\ label = ""

\* get_country_with_bin returns x to main, which classifies it (line 93) and
\* goes on to await aclose (line 94)
Return(c, x, events) ==
    /\ country_alpha2' = [country_alpha2 EXCEPT ![c] = x]
    /\ classification' = [classification EXCEPT ![c] = classify_country_by_alpha2(x)]
    /\ pc' = [pc EXCEPT ![c] = "close"]
    /\ trace' = [trace EXCEPT ![c] = @ \o events \o <<Event("return", <<>>, x, -1)>>]
    /\ UNCHANGED exc

\* e leaves get_country_with_bin and, main having no handler, main as well
Raise(c, e, events) ==
    /\ exc' = [exc EXCEPT ![c] = e]
    /\ pc' = [pc EXCEPT ![c] = "failed"]
    /\ trace' = [trace EXCEPT ![c] = @ \o events \o <<Event("raise", <<>>, Str(e), -1)>>]
    /\ UNCHANGED <<country_alpha2, classification>>

\* e raised inside the try block: the handlers of lines 51-54, in their order
Handle_RetryTimeout(c, e) ==
    LET fault == <<Event("fault", <<>>, Str(e), -1)>>
    IN  IF "ClientError" \in Bases(e)
        THEN Return(c, Str("CLIENT_ERROR: " \o Message(e)), fault)
        ELSE IF "TimeoutError" \in Bases(e)
        THEN /\ pc' = [pc EXCEPT ![c] = "request"]
             /\ trace' = [trace EXCEPT ![c] = @ \o fault]
             /\ UNCHANGED <<country_alpha2, classification, exc>>
        ELSE Raise(c, e, fault)

Handle(c, e) ==
    LET fault == <<Event("fault", <<>>, Str(e), -1)>>
    IN  IF "ClientError" \in Bases(e)
        THEN Return(c, Str("CLIENT_ERROR: " \o Message(e)), fault)
        ELSE IF "TimeoutError" \in Bases(e)
        THEN Return(c, Str("TIMEOUT"), fault)
        ELSE Raise(c, e, fault)

\* the value returned for a status other than 200 (lines 47-50)
StatusSentinel_No429(s) == Str("HTTP_" \o ToString(s))
StatusSentinel_NoCode(s) == IF s = 429 THEN Str("RATE_LIMIT") ELSE Str("HTTP_ERROR")

StatusSentinel(s) ==
    IF s = 429 THEN Str("RATE_LIMIT") ELSE Str("HTTP_" \o ToString(s))

\* main is called: redis.from_url (line 91), then the resolver up to its first await
Start(c, n) ==
    /\ pc[c] = "idle"
    /\ \A d \in Calls : d < c => pc[d] # "idle"
    /\ number' = [number EXCEPT ![c] = n]
    /\ conn' = [conn EXCEPT ![c] = "open"]
    /\ pc' = [pc EXCEPT ![c] = "get"]
    /\ UNCHANGED <<cache, status, data, country_code, country_alpha2, classification,
                   record, exc, trace, after, writer, env, arg, label>>

\* await redis_client.get(cache_key) and the test of line 31
CacheGet(c) ==
    /\ pc[c] = "get"
    /\ LET k == cache_key(number[c])
           cached == Get(cache, k)
           read == <<Event("get", k, cached, WriterOf(k))>>
       IN  \/ Raise(c, "RedisError", << >>)
           \/ /\ Truthy(cached)
              /\ IF CanDecode(cached)
                 THEN Return(c, Decode(cached), read)
                 ELSE Raise(c, "UnicodeDecodeError", read)
           \/ /\ ~Truthy(cached)
              /\ pc' = [pc EXCEPT ![c] = "request"]
              /\ trace' = [trace EXCEPT ![c] = @ \o read]
              /\ UNCHANGED <<country_alpha2, classification, exc>>
    /\ after' = [after EXCEPT ![c] = { d \in Calls : Ended(d) }]
    /\ UNCHANGED <<cache, number, conn, status, data, country_code, record, writer, env, arg, label>>

\* session.get(url, headers, timeout=5) is sent (lines 38-39)
SendRequest(c) ==
    /\ pc[c] = "request"
    /\ pc' = [pc EXCEPT ![c] = "response"]
    /\ trace' = [trace EXCEPT ![c] = Append(@, Event("request", url(number[c]), None, -1))]
    /\ UNCHANGED <<cache, number, conn, status, data, country_code, country_alpha2,
                   classification, record, exc, after, writer, env, arg, label>>

\* the request ends: a response with a status, or a fault (lines 39-40, 47-54)
Response_CachesRateLimit(c) ==
    /\ pc[c] = "response"
    /\ \/ \E s \in Statuses :
            /\ status' = [status EXCEPT ![c] = s]
            /\ IF s = 200
               THEN /\ pc' = [pc EXCEPT ![c] = "json"]
                    /\ UNCHANGED <<country_alpha2, classification, exc, trace>>
               ELSE Return(c, StatusSentinel(s), << >>)
            /\ IF s = 429
               THEN /\ cache' = Put(cache, cache_key(number[c]), Encode(StatusSentinel(s)))
                    /\ writer' = Put(writer, cache_key(number[c]), c)
               ELSE UNCHANGED <<cache, writer>>
       \/ \E e \in RequestFaults :
            /\ Handle(c, e)
            /\ UNCHANGED <<status, cache, writer>>
    /\ UNCHANGED <<number, conn, data, country_code, record, after, env, arg, label>>

Response(c) ==
    /\ pc[c] = "response"
    /\ \/ \E s \in Statuses :
            /\ status' = [status EXCEPT ![c] = s]
            /\ IF s = 200
               THEN /\ pc' = [pc EXCEPT ![c] = "json"]
                    /\ UNCHANGED <<country_alpha2, classification, exc, trace>>
               ELSE Return(c, StatusSentinel(s), << >>)
       \/ \E e \in RequestFaults :
            /\ Handle(c, e)
            /\ UNCHANGED status
    /\ UNCHANGED <<cache, number, conn, data, country_code, record, after, writer, env, arg, label>>

\* await response.json() and the tests of lines 42-44
Json_NoLenCheck(c) ==
    /\ pc[c] = "json"
    /\ \/ \E body \in Bodies :
            /\ data' = [data EXCEPT ![c] = body]
            /\ IF body.list
               THEN IF body.len = 0
                    THEN /\ Raise(c, "IndexError", << >>)
                         /\ UNCHANGED country_code
                    ELSE IF ~body.object
                    THEN /\ Raise(c, "AttributeError", << >>)
                         /\ UNCHANGED country_code
                    ELSE /\ country_code' = [country_code EXCEPT ![c] = body.iso_code2]
                         /\ IF Truthy(body.iso_code2)
                            THEN /\ pc' = [pc EXCEPT ![c] = "set"]
                                 /\ UNCHANGED <<country_alpha2, classification, exc, trace>>
                            ELSE Return(c, None, << >>)
               ELSE /\ Return(c, None, << >>)
                    /\ UNCHANGED country_code
       \/ \E e \in JsonFaults :
            /\ Handle(c, e)
            /\ UNCHANGED <<data, country_code>>
    /\ UNCHANGED <<cache, number, conn, status, record, after, writer, env, arg, label>>

Json(c) ==
    /\ pc[c] = "json"
    /\ \/ \E body \in Bodies :
            /\ data' = [data EXCEPT ![c] = body]
            /\ IF body.list /\ body.len > 0
               THEN IF ~body.object
                    THEN /\ Raise(c, "AttributeError", << >>)
                         /\ UNCHANGED country_code
                    ELSE /\ country_code' = [country_code EXCEPT ![c] = body.iso_code2]
                         /\ IF Truthy(body.iso_code2)
                            THEN /\ pc' = [pc EXCEPT ![c] = "set"]
                                 /\ UNCHANGED <<country_alpha2, classification, exc, trace>>
                            ELSE Return(c, None, << >>)
               ELSE /\ Return(c, None, << >>)
                    /\ UNCHANGED country_code
       \/ \E e \in JsonFaults :
            /\ Handle(c, e)
            /\ UNCHANGED <<data, country_code>>
    /\ UNCHANGED <<cache, number, conn, status, record, after, writer, env, arg, label>>

\* await redis_client.set(cache_key, country_code, ex=...) and the return of line 46;
\* a failing set may or may not have reached the store
CacheSet(c) ==
    /\ pc[c] = "set"
    /\ LET k == cache_key(number[c])
           b == Encode(country_code[c])
           written == <<Event("set", k, b, c)>>
       IN  \/ /\ cache' = Put(cache, k, b)
              /\ writer' = Put(writer, k, c)
              /\ Return(c, country_code[c], written)
           \/ /\ cache' = Put(cache, k, b)
              /\ writer' = Put(writer, k, c)
              /\ Raise(c, "RedisError", written)
           \/ /\ UNCHANGED <<cache, writer>>
              /\ Raise(c, "RedisError", << >>)
    /\ UNCHANGED <<number, conn, status, data, country_code, record, after, env, arg, label>>

\* the dict main returns (lines 95-99)
result_Truncated(c) ==
    [bin |-> bin_number(number[c]),
     country_alpha2 |-> country_alpha2[c],
     classification |-> classification[c]]

result(c) ==
    [bin |-> number[c],
     country_alpha2 |-> country_alpha2[c],
     classification |-> classification[c]]

\* await redis_client.aclose() and the dict of lines 95-99
Close(c) ==
    /\ pc[c] = "close"
    /\ conn' = [conn EXCEPT ![c] = "closed"]
    /\ record' = [record EXCEPT ![c] = result(c)]
    /\ pc' = [pc EXCEPT ![c] = "done"]
    /\ UNCHANGED <<cache, number, status, data, country_code, country_alpha2,
                   classification, exc, trace, after, writer, env, arg, label>>

(* --------------------- the store's other clients ---------------------- *)

\* values another client of the shared store may leave under a key
ForeignValues == { Bytes(""), Bytes("FR"), Bytes(INVALID_UTF8) }

ForeignSet(k, b) ==
    /\ env < MaxEnv
    /\ env' = env + 1
    /\ cache' = Put(cache, k, b)
    /\ writer' = Put(writer, k, 0)
    /\ UNCHANGED <<pc, number, conn, status, data, country_code, country_alpha2,
                   classification, record, exc, trace, after, arg, label>>

\* the 30-day expiry of an entry
Expire(k) ==
    /\ env < MaxEnv
    /\ k \in DOMAIN cache
    /\ env' = env + 1
    /\ cache' = Drop(cache, k)
    /\ writer' = Drop(writer, k)
    /\ UNCHANGED <<pc, number, conn, status, data, country_code, country_alpha2,
                   classification, record, exc, trace, after, arg, label>>

Next ==
    \/ \E c \in Calls, n \in Numbers : Start(c, n)
    \/ \E c \in Calls : CacheGet(c)
    \/ \E c \in Calls : SendRequest(c)
    \/ \E c \in Calls : Response(c)
    \/ \E c \in Calls : Json(c)
    \/ \E c \in Calls : CacheSet(c)
    \/ \E c \in Calls : Close(c)
    \/ \E k \in AllKeys, b \in ForeignValues : ForeignSet(k, b)
    \/ \E k \in AllKeys : Expire(k)

Spec == Init /\ [][Next]_vars

\* the calls with no other client of the store: only their own writes and expiry
NextClosed ==
    \/ \E c \in Calls, n \in Numbers : Start(c, n)
    \/ \E c \in Calls : CacheGet(c)
    \/ \E c \in Calls : SendRequest(c)
    \/ \E c \in Calls : Response(c)
    \/ \E c \in Calls : Json(c)
    \/ \E c \in Calls : CacheSet(c)
    \/ \E c \in Calls : Close(c)
    \/ \E k \in AllKeys : Expire(k)

SpecClosed == Init /\ [][NextClosed]_vars

(* ----------------------- the classifier on its own -------------------- *)

Letters == { "A", "B", "C", "D", "E", "F", "G", "H", "I", "J", "K", "L", "M",
             "N", "O", "P", "Q", "R", "S", "T", "U", "V", "W", "X", "Y", "Z" }

\* arguments of classify_country_by_alpha2: None, "", every two-letter code, and
\* what the resolver returns besides codes
ClassifierInputs ==
    { None, Str(""), Str("rs"), Str("de"), Str("R"), Str("RSX") }
    \cup { Str(a \o b) : a \in Letters, b \in Letters }
    \cup { Str("RATE_LIMIT"), Str("TIMEOUT"), Str("CLIENT_ERROR: ") }
    \cup { Str("HTTP_" \o ToString(s)) : s \in Statuses \ {200} }
    \cup { Str("CLIENT_ERROR: " \o Message(e)) : e \in RequestFaults \cup JsonFaults }

mainVars == <<cache, pc, number, conn, status, data, country_code, country_alpha2,
              classification, record, exc, trace, after, writer, env>>

InitClassify ==
    /\ InitCalls
    /\ arg \in ClassifierInputs
    /\ label = ""

Classify ==
    /\ label = ""
    /\ label' = classify_country_by_alpha2(arg)
    /\ UNCHANGED <<arg, mainVars>>

NextClassify == Classify

SpecClassify == InitClassify /\ [][NextClassify]_vars

(* ============================== the claims ============================= *)

Has(c, op) == \E i \in DOMAIN trace[c] : trace[c][i].op = op
Count(c, op) == Cardinality({ i \in DOMAIN trace[c] : trace[c][i].op = op })
Returned(c) == pc[c] \in {"close", "done"}

\* the first 6 characters of s, or all of s when it has fewer
FirstSix(s) == [i \in 1..(IF Len(s) < 6 THEN Len(s) ELSE 6) |-> s[i]]
KeyOf(s) == <<"bin_country:">> \o FirstSix(s)

\* what the resolver returns when it has no country code
FailureValues ==
    { None, Str("RATE_LIMIT"), Str("TIMEOUT"), Str("HTTP_404"), Str("HTTP_503"),
      Str("HTTP_429"),
      Str("CLIENT_ERROR: Cannot connect to host"),
      Str("CLIENT_ERROR: Attempt to decode JSON with unexpected mimetype"),
      Str("CLIENT_ERROR: Timeout on reading data from socket") }

\* C1: whenever a call's cache read finds an entry under its key, whatever the
\* stored value, the call returns that value decoded to text, sends no request
\* and writes nothing.
Cex_C1 ==
    \A c \in Calls : \A i \in DOMAIN trace[c] :
        (trace[c][i].op = "get" /\ trace[c][i].val.t = "bytes") =>
            /\ Returned(c)
            /\ country_alpha2[c] = Str(trace[c][i].val.v)
            /\ ~Has(c, "request")
            /\ ~Has(c, "set")

\* C2: a step of a call changes the store only when the remote answered 200 with
\* a non-empty list whose first element carries a non-empty iso_code2, and then
\* it binds exactly that code to the call's own key and the call returns the code;
\* a call that returned null or a sentinel has written nothing.
C2_Step(c) ==
    pc'[c] # pc[c] =>
        /\ (<<cache, writer>>' # <<cache, writer>>) =>
              /\ status[c] = 200
              /\ data[c].list /\ data[c].len > 0 /\ data[c].object
              /\ data[c].iso_code2.t = "str" /\ data[c].iso_code2.v # ""
              /\ cache' = Put(cache, KeyOf(number[c]), Bytes(data[c].iso_code2.v))
              /\ pc'[c] = "close" => country_alpha2'[c] = data[c].iso_code2
        /\ (pc'[c] = "close" /\ country_alpha2'[c] \in FailureValues) =>
              /\ <<cache, writer>>' = <<cache, writer>>
              /\ \A i \in DOMAIN trace'[c] : trace'[c][i].op # "set"

Theorem_C2 == [][\A c \in Calls : C2_Step(c)]_vars

Witness_C2 ==
    \E c, d \in Calls :
        /\ pc[c] = "done" /\ Has(c, "set") /\ country_alpha2[c] = Str("DE")
        /\ cache_key(number[c]) \in DOMAIN cache
        /\ pc[d] = "done" /\ status[d] = 429 /\ number[d] # number[c]

\* C3: a call that reads the entry an earlier, successful call for the same BIN
\* wrote (not expired, not overwritten) returns the code that call returned and
\* sends no request.
Theorem_C3 ==
    \A a, b \in Calls : \A i \in DOMAIN trace[b] :
        (a # b /\ trace[b][i].op = "get" /\ trace[b][i].by = a /\ Returned(a)) =>
            /\ a \in after[b]
            /\ Has(a, "request") /\ status[a] = 200
            /\ Returned(b)
            /\ country_alpha2[b] = country_alpha2[a]
            /\ country_alpha2[b] = data[a].iso_code2
            /\ ~Has(b, "request")
            /\ ~Has(b, "set")

Witness_C3 ==
    \E a, b \in Calls :
        /\ a # b /\ pc[a] = "done" /\ pc[b] = "done"
        /\ number[a] = number[b]
        /\ \E i \in DOMAIN trace[b] : trace[b][i].op = "get" /\ trace[b][i].by = a
        /\ country_alpha2[b] = Str("RS")

\* C4: a call answered 429 returns "RATE_LIMIT" and leaves nothing in the store;
\* a later call for the same BIN that finds no entry misses and sends a request
\* of its own.
Theorem_C4 ==
    \A a \in Calls :
        status[a] = 429 =>
            /\ Returned(a)
            /\ country_alpha2[a] = Str("RATE_LIMIT")
            /\ ~Has(a, "set")
            /\ \A k \in DOMAIN writer : writer[k] # a
            /\ \A b \in Calls : \A i \in DOMAIN trace[b] :
                  (/\ b # a /\ a \in after[b]
                   /\ trace[b][i].op = "get"
                   /\ trace[b][i].key = KeyOf(number[a])) =>
                      /\ trace[b][i].by # a
                      /\ trace[b][i].by = -1 =>
                            /\ trace[b][i].val = None
                            /\ pc[b] # "request" => Count(b, "request") = 1

Witness_C4 ==
    \E a, b \in Calls :
        /\ a # b /\ status[a] = 429 /\ a \in after[b]
        /\ number[a] = number[b]
        /\ \E i \in DOMAIN trace[b] : trace[b][i].op = "get" /\ trace[b][i].by = -1
        /\ Has(b, "request")
        /\ pc[b] = "done"

\* C5: every call of main that has ended, by a return or by an exception, has
\* closed its connection.
Cex_C5 == \A c \in Calls : pc[c] \in {"done", "failed"} => conn[c] = "closed"

\* C6: every call of the resolver ends by returning a string or null; no
\* exception leaves it.
Cex_C6 ==
    \A c \in Calls :
        Ended(c) => /\ trace[c][Len(trace[c])].op = "return"
                    /\ exc[c] = ""

\* C7: a request that times out, whatever the class of the timeout fault, makes
\* the call return "TIMEOUT" and write nothing.
Cex_C7 ==
    \A c \in Calls : \A i \in DOMAIN trace[c] :
        (/\ trace[c][i].op = "fault"
         /\ trace[c][i].val.v \in {"TimeoutError", "ServerTimeoutError"}) =>
            /\ Returned(c)
            /\ country_alpha2[c] = Str("TIMEOUT")
            /\ ~Has(c, "set")

\* C8: every cache read and write of a call uses the key "bin_country:" + the
\* first 6 characters of its input (the whole input when shorter) and its request
\* asks for the same characters; a call whose input shares its first 6 characters
\* with an earlier call's input is served that call's entry.
Theorem_C8 ==
    /\ \A c \in Calls : \A i \in DOMAIN trace[c] :
          /\ trace[c][i].op \in {"get", "set"} =>
                /\ trace[c][i].key = <<"bin_country:">> \o FirstSix(number[c])
                /\ Len(number[c]) < 6 =>
                      trace[c][i].key = <<"bin_country:">> \o number[c]
          /\ trace[c][i].op = "request" =>
                trace[c][i].key =
                    <<"https://api.api-ninjas.com/v1/bin?bin=">> \o FirstSix(number[c])
    /\ \A a, b \in Calls : \A i \in DOMAIN trace[b] :
          (a # b /\ trace[b][i].op = "get" /\ Has(a, "set")) =>
              (trace[b][i].by = a => FirstSix(number[a]) = FirstSix(number[b]))
    /\ \A k \in DOMAIN writer : \A c \in Calls :
          writer[k] = c => k = <<"bin_country:">> \o FirstSix(number[c])

Witness_C8 ==
    \E a, b \in Calls :
        /\ a # b /\ number[a] # number[b]
        /\ Len(number[a]) > 6 /\ Len(number[b]) > 6
        /\ \E i \in DOMAIN trace[b] : trace[b][i].op = "get" /\ trace[b][i].by = a
        /\ pc[b] = "done" /\ country_alpha2[b] = country_alpha2[a]

At(c, op) == { i \in DOMAIN trace[c] : trace[c][i].op = op }

\* C11: a call reads the cache once, then sends at most one request, then writes
\* at most once; it sends the request only after a miss and writes only after a
\* 200 response; no status, fault or timeout makes it send a second request.
Theorem_C11 ==
    \A c \in Calls :
        /\ Cardinality(At(c, "get")) <= 1
        /\ Cardinality(At(c, "request")) <= 1
        /\ Cardinality(At(c, "set")) <= 1
        /\ pc[c] \notin {"idle", "get"} =>
              \/ Cardinality(At(c, "get")) = 1
              \/ trace[c] = <<Event("raise", <<>>, Str("RedisError"), -1)>>
        /\ \A i \in At(c, "get") : i = 1
        /\ \A i \in At(c, "request") :
              /\ i = 2
              /\ trace[c][1].op = "get"
              /\ trace[c][1].val.t = "NoneType" \/ trace[c][1].val.v = ""
        /\ \A i \in At(c, "set") :
              /\ At(c, "request") # {}
              /\ \A j \in At(c, "request") : j < i
              /\ status[c] = 200
        /\ pc[c] \in {"response", "json", "set"} => Cardinality(At(c, "request")) = 1
        /\ (status[c] # 0 \/ At(c, "fault") # {}) => Cardinality(At(c, "request")) = 1

Witness_C11 ==
    \E c, d \in Calls :
        /\ pc[c] = "done" /\ At(c, "get") = {1} /\ At(c, "request") = {2}
        /\ At(c, "set") = {3}
        /\ pc[d] = "done" /\ At(d, "fault") # {} /\ country_alpha2[d] = Str("TIMEOUT")
        /\ Cardinality(At(d, "request")) = 1

\* C12: a call answered with a status other than 200 and 429 returns "HTTP_"
\* followed by the status and writes nothing; 429 never gives "HTTP_429".
Theorem_C12 ==
    \A c \in Calls :
        /\ status[c] \notin {0, 200, 429} =>
              /\ Returned(c)
              /\ country_alpha2[c].t = "str"
              /\ country_alpha2[c].v = "HTTP_" \o ToString(status[c])
              /\ status[c] = 503 => country_alpha2[c] = Str("HTTP_503")
              /\ status[c] = 404 => country_alpha2[c] = Str("HTTP_404")
              /\ trace[c][Len(trace[c])] = Event("return", <<>>, country_alpha2[c], -1)
              /\ At(c, "set") = {}
              /\ \A k \in DOMAIN writer : writer[k] # c
        /\ status[c] = 429 => country_alpha2[c] # Str("HTTP_429")

Witness_C12 ==
    \E c, d \in Calls :
        /\ pc[c] = "done" /\ status[c] = 503
        /\ record[c].country_alpha2 = Str("HTTP_503")
        /\ pc[d] = "done" /\ status[d] = 404
        /\ record[d].country_alpha2 = Str("HTTP_404")

\* the call has decoded the body of a 200 response: data[c] is that body
Decoded(c) == status[c] = 200 /\ pc[c] # "json" /\ At(c, "fault") = {}

\* a body that carries no country code: not a list, an empty list, or a first
\* element whose iso_code2 is missing or empty
NoCode(d) ==
    \/ ~d.list
    \/ d.len = 0
    \/ d.object /\ (d.iso_code2.t = "NoneType" \/ d.iso_code2.v = "")

\* C13: a call answered 200 with a body that carries no code returns null and
\* writes nothing; a later call for the same BIN that finds no entry misses and
\* sends a request of its own.
Theorem_C13 ==
    \A a \in Calls :
        (Decoded(a) /\ NoCode(data[a])) =>
            /\ Returned(a)
            /\ country_alpha2[a] = None
            /\ trace[a][Len(trace[a])] = Event("return", <<>>, None, -1)
            /\ At(a, "set") = {}
            /\ \A k \in DOMAIN writer : writer[k] # a
            /\ \A b \in Calls : \A i \in At(b, "get") :
                  (/\ b # a /\ a \in after[b]
                   /\ trace[b][i].key = KeyOf(number[a])) =>
                      /\ trace[b][i].by # a
                      /\ trace[b][i].by = -1 =>
                            /\ trace[b][i].val = None
                            /\ pc[b] # "request" => Cardinality(At(b, "request")) = 1

Witness_C13 ==
    \E a, b \in Calls :
        /\ a # b /\ Decoded(a) /\ data[a].list /\ data[a].len = 0
        /\ pc[a] = "done" /\ a \in after[b]
        /\ number[a] = number[b]
        /\ \E i \in At(b, "get") : trace[b][i].by = -1
        /\ At(b, "request") # {}
        /\ pc[b] = "done"

\* what a call has observed of its environment: the value it read under its key,
\* the status and the body it was answered, the fault raised in its request
Observed(c) ==
    << { trace[c][i].val : i \in At(c, "get") }, status[c], data[c],
       { trace[c][i].val : i \in At(c, "fault") } >>

\* every read of c is of its own key and of an entry no call for another key left;
\* two calls that observed the same return the same
C14_State(c) ==
    /\ \A i \in At(c, "get") :
          /\ trace[c][i].key = KeyOf(number[c])
          /\ trace[c][i].by \in Calls =>
                KeyOf(number[trace[c][i].by]) = KeyOf(number[c])
    /\ \A i \in At(c, "set") : trace[c][i].key = KeyOf(number[c])
    /\ \A d \in Calls :
          (Returned(c) /\ Returned(d) /\ Observed(c) = Observed(d)) =>
              country_alpha2[c] = country_alpha2[d]

\* a step of c leaves every entry but the one under its own key as it was
C14_Step(c) ==
    pc'[c] # pc[c] =>
        /\ \A k \in (DOMAIN cache \cup DOMAIN cache') \ {KeyOf(number'[c])} :
              /\ k \in DOMAIN cache /\ k \in DOMAIN cache'
              /\ cache'[k] = cache[k]
              /\ writer'[k] = writer[k]
        /\ C14_State(c)'

\* C14: under every interleaving, a call reads and writes only the entry under
\* "bin_country:" + its own 6 characters and leaves every other entry unchanged,
\* so what it returns depends on no call for another key.
Theorem_C14 == [][\A c \in Calls : C14_Step(c)]_vars

Witness_C14 ==
    \E a, b \in Calls :
        /\ KeyOf(number[a]) # KeyOf(number[b])
        /\ pc[a] = "done" /\ pc[b] = "done"
        /\ a \notin after[b] /\ b \notin after[a]
        /\ At(a, "set") # {} /\ At(b, "set") # {}
        /\ WriterOf(KeyOf(number[a])) = a /\ WriterOf(KeyOf(number[b])) = b
        /\ country_alpha2[a] = Str("RS") /\ country_alpha2[b] = Str("DE")

\* the entry under k is a non-empty code that a call for k was answered as
\* iso_code2 in a 200 response, and is no sentinel
FromRemote(k) ==
    /\ cache[k].t = "bytes"
    /\ cache[k].v # ""
    /\ Str(cache[k].v) \notin FailureValues
    /\ k \in DOMAIN writer
    /\ \E c \in Calls :
          /\ writer[k] = c
          /\ k = KeyOf(number[c])
          /\ \E i \in At(c, "request") :
                trace[c][i].key =
                    <<"https://api.api-ninjas.com/v1/bin?bin=">> \o FirstSix(number[c])
          /\ status[c] = 200
          /\ data[c].list /\ data[c].len > 0 /\ data[c].object
          /\ data[c].iso_code2 = Str(cache[k].v)

\* C15: from an empty store and with the calls as its only writers, every entry
\* holds a non-empty iso_code2 that a 200 response to a request for the same key
\* carried, never a sentinel or an empty value; so no cache hit returns a sentinel.
Theorem_C15 ==
    /\ \A k \in DOMAIN cache : FromRemote(k)
    /\ \A c \in Calls : \A i \in At(c, "get") :
          trace[c][i].val.t = "bytes" =>
              /\ trace[c][i].val.v # ""
              /\ trace[c][i].by \in Calls
              /\ Returned(c)
              /\ country_alpha2[c] \notin FailureValues
              /\ country_alpha2[c] = data[trace[c][i].by].iso_code2

Witness_C15 ==
    \E a, b \in Calls :
        /\ a # b /\ KeyOf(number[a]) = KeyOf(number[b])
        /\ a \notin after[b] /\ b \notin after[a]
        /\ \A c \in {a, b} : \E i \in At(c, "get") : trace[c][i].by = -1
        /\ At(a, "request") # {} /\ At(b, "request") # {}
        /\ At(a, "set") # {} /\ At(b, "set") # {}
        /\ country_alpha2[a] = Str("RS") /\ country_alpha2[b] = Str("DE")
        /\ WriterOf(KeyOf(number[a])) = b
        /\ cache[KeyOf(number[a])] = Bytes("DE")
        /\ pc[a] = "done" /\ pc[b] = "done"

\* the next step of the task of call c
StepOf(c) ==
    \/ CacheGet(c)
    \/ SendRequest(c)
    \/ Response(c)
    \/ Json(c)
    \/ CacheSet(c)
    \/ Close(c)

\* C16: a call whose cache read and cache write complete goes on until it has
\* returned: it never stops anywhere but after main has returned its record.
Cex_C16 ==
    \A c \in Calls :
        (pc[c] # "idle" /\ exc[c] # "RedisError") =>
            \/ ENABLED StepOf(c)
            \/ pc[c] = "done" /\ record[c] = result(c)

====
